---- MODULE Spec2Model ----
(***************************************************************************)
(* Model of the QuizAtTime component (src/js/quiz-at-time.js): a quiz that *)
(* is revealed when a clock reaches quizTime, pauses the video, evaluates  *)
(* clicked answers and resumes the video on the correct one.               *)
(*                                                                         *)
(* Time is counted in whole units (one unit = 1.0 s of the source's float  *)
(* seconds).  Objects assigned in the editor are modelled by booleans      *)
(* (TRUE = assigned / component found, FALSE = null).                      *)
(***************************************************************************)
EXTENDS Integers, Sequences, FiniteSets, TLC

\* ---------------------------------------------------------------- bounds
MaxQuizTime == 3
MaxDt == 2
MaxVideoTime == 3

\* ------------------------------------------------------------- constants
Labels == {"A", "B", "C"}
\* correctAnswer is a free string property: "D" stands for any value that
\* is not the label of a button.
AnswerStrings == {"A", "B", "C", "D"}

EditorText == "editor text"
EmptyMsg == ""
CorrectMsg == "CORRECT!!!"
RetryMsg == " Wrong answer, try again"

VARIABLES
    \* editor properties (static Properties)
    quizTime, correctAnswer, buttonA, buttonB, buttonC, feedbackObject,
    \* fields set by start()
    quizShown, quizCompleted, elapsed, videoComponent, feedbackText,
    \* the HTML video behind videoComponent.video
    video, currentTime, paused,
    \* scene objects written by the component
    active, feedbackActive, text,
    \* history: commands sent to the video, the last callback run, counters
    mediaCmds, lastOp, revealCount, succeedCount, fallbackSum,
    \* history: the last time update() compared with quizTime and where it
    \* came from; whether videoComponent.video has come or gone since start()
    lastSample, availabilityChanged

config == <<quizTime, correctAnswer, buttonA, buttonB, buttonC, feedbackObject,
            videoComponent, feedbackText>>
fields == <<quizShown, quizCompleted, elapsed>>
media == <<video, currentTime, paused>>
scene == <<active, feedbackActive, text>>
history == <<mediaCmds, lastOp, revealCount, succeedCount, fallbackSum,
             lastSample, availabilityChanged>>
vars == <<config, fields, media, scene, history>>

\* everything a callback of the component can write
runtime == <<fields, paused, scene, mediaCmds>>

\* this.audioSource is never assigned anywhere in the component
audioSource == FALSE

button(l) == IF l = "A" THEN buttonA ELSE IF l = "B" THEN buttonB ELSE buttonC

phase ==
    IF quizCompleted THEN "Completed"
    ELSE IF quizShown THEN "Active"
    ELSE "Waiting"

Rank(p) == IF p = "Waiting" THEN 0 ELSE IF p = "Active" THEN 1 ELSE 2

NoOp == [op |-> "start", dt |-> 0, answer |-> "", effect |-> "None"]

\* ------------------------------------------------------------- helpers

\* Faulty variants of the helpers below, used to show that each checked
\* property depends on the code it is about.

\* _onAnswer without its first line
answerIgnoredNever == FALSE
\* _onAnswer with && in place of || in its first line
answerIgnoredAnd == ~quizShown /\ quizCompleted
\* update() that forgets to test quizCompleted
updateReturnsEarlyShownOnly == quizShown
\* the trigger comparison turned around
reachedInverted(t) == t <= quizTime
\* = in place of ===: every answer counts as correct
isCorrectAlways(answer) == TRUE
\* elapsed = dt in place of elapsed += dt
nextElapsedReset(dt) == IF videoComponent /\ video THEN elapsed ELSE dt
\* elapsed += dt moved out of the else branch
nextElapsedAlways(dt) == elapsed + dt
\* only button A is switched
setButtonsActiveOnlyA(a) ==
    [l \in {"A", "B", "C"} |-> IF l = "A" /\ buttonA THEN a ELSE active[l]]
\* the assignment to feedbackText.text is lost
showFeedbackTextLost(t) == text
\* the null check of feedbackText is missing: a TypeError without it
showFeedbackThrowsUnguarded == ~feedbackText

\* update() that forgets to test quizShown
updateReturnsEarlyCompletedOnly == quizCompleted
\* the accumulated time is compared even when the video time was read
sampledElapsedOnly(dt) == IF videoComponent /\ video THEN elapsed ELSE elapsed + dt
\* > in place of >=
reachedStrict(t) == t > quizTime
\* the buttons are toggled instead of set
setButtonsActiveToggle(a) ==
    [l \in {"A", "B", "C"} |->
        IF (IF l = "A" THEN buttonA ELSE IF l = "B" THEN buttonB ELSE buttonC)
        THEN ~active[l] ELSE active[l]]

\* _setButtonsActive(active): each assigned button gets the value
setButtonsActive(a) ==
    [l \in Labels |-> IF button(l) THEN a ELSE active[l]]

\* _showFeedback(text): feedbackObject.active after the call
showFeedbackActive ==
    IF ~feedbackObject THEN feedbackActive ELSE TRUE

\* _showFeedback(text): feedbackText.text after the call
showFeedbackText(t) ==
    IF ~feedbackObject THEN text
    ELSE IF feedbackText THEN t ELSE text

\* _showFeedback touches feedbackObject and feedbackText only behind their
\* null checks, so the call returns normally whatever is assigned
showFeedbackThrows == FALSE

\* this.videoComponent && this.videoComponent.video
hasVideo == videoComponent /\ video

\* video.paused after video.pause(), called only if there is a video
pauseVideo == IF hasVideo THEN TRUE ELSE paused

\* video.paused after video.play(), called only if there is a video
playVideo == IF hasVideo THEN FALSE ELSE paused

\* this.elapsed after the clock has been read: only the else branch adds dt
nextElapsed(dt) == IF hasVideo THEN elapsed ELSE elapsed + dt

\* first line of update(): nothing to do once shown or completed
updateReturnsEarly == quizCompleted \/ quizShown

\* first line of _onAnswer(): clicks outside the shown quiz are ignored
answerIgnored == ~quizShown \/ quizCompleted

\* currentTime >= this.quizTime
reached(t) == t >= quizTime

\* answer === this.correctAnswer
isCorrect(answer) == answer = correctAnswer

\* ------------------------------------------------------------- start()

Init ==
    /\ quizTime \in 0..MaxQuizTime
    /\ correctAnswer \in AnswerStrings
    /\ buttonA \in BOOLEAN
    /\ buttonB \in BOOLEAN
    /\ buttonC \in BOOLEAN
    /\ feedbackObject \in BOOLEAN
    /\ quizShown = FALSE
    /\ quizCompleted = FALSE
    /\ elapsed = 0
    /\ \E videoObject \in BOOLEAN, hasVideoTexture \in BOOLEAN :
          videoComponent = IF videoObject THEN hasVideoTexture ELSE FALSE
    /\ \E hasText \in BOOLEAN :
          feedbackText = IF feedbackObject THEN hasText ELSE FALSE
    /\ video \in IF videoComponent THEN BOOLEAN ELSE {FALSE}
    /\ currentTime = 0
    /\ paused = FALSE
    /\ active = [l \in Labels |-> FALSE]
    /\ feedbackActive = FALSE
    /\ text = IF feedbackText THEN EditorText ELSE EmptyMsg
    /\ mediaCmds = <<>>
    /\ lastOp = NoOp
    /\ revealCount = 0
    /\ succeedCount = 0
    /\ fallbackSum = 0
    /\ lastSample = [source |-> "none", value |-> 0]
    /\ availabilityChanged = FALSE

\* ------------------------------------------------------------ update(dt)

\* the time update() compares with quizTime
sampled(dt) == IF hasVideo THEN currentTime ELSE nextElapsed(dt)

update(dt) ==
    /\ fallbackSum' = IF phase = "Waiting" /\ ~hasVideo
                      THEN fallbackSum + dt ELSE fallbackSum
    /\ lastSample' = IF updateReturnsEarly THEN lastSample
                     ELSE [source |-> IF hasVideo THEN "external"
                                      ELSE "fallback",
                           value |-> sampled(dt)]
    /\ IF updateReturnsEarly
       THEN /\ UNCHANGED <<fields, paused, scene, mediaCmds, revealCount>>
            /\ lastOp' = [op |-> "update", dt |-> dt, answer |-> "", effect |-> "None"]
       ELSE /\ elapsed' = nextElapsed(dt)
            /\ IF reached(sampled(dt))
               THEN /\ quizShown' = TRUE
                    /\ paused' = pauseVideo
                    /\ mediaCmds' = IF hasVideo
                                    THEN Append(mediaCmds, "pause")
                                    ELSE mediaCmds
                    /\ active' = setButtonsActive(TRUE)
                    /\ feedbackActive' = showFeedbackActive
                    /\ text' = IF showFeedbackThrows THEN text
                               ELSE showFeedbackText(EmptyMsg)
                    /\ revealCount' = revealCount + 1
                    /\ lastOp' = [op |-> "update", dt |-> dt, answer |-> "", effect |-> "Reveal"]
               ELSE /\ UNCHANGED <<quizShown, paused, scene, mediaCmds,
                                   revealCount>>
                    /\ lastOp' = [op |-> "update", dt |-> dt, answer |-> "", effect |-> "None"]
            /\ UNCHANGED quizCompleted
    /\ UNCHANGED <<config, video, currentTime, succeedCount,
                   availabilityChanged>>

\* -------------------------------------------------------- _onAnswer(answer)

onAnswer(answer) ==
    /\ IF answerIgnored
       THEN /\ UNCHANGED <<fields, paused, scene, mediaCmds, succeedCount>>
            /\ lastOp' = [op |-> "onAnswer", dt |-> 0, answer |-> answer, effect |-> "None"]
       ELSE IF showFeedbackThrows
       THEN \* an exception in the first statement of either branch ends
            \* the handler there
            /\ feedbackActive' = showFeedbackActive
            /\ UNCHANGED <<fields, paused, active, text, mediaCmds,
                           succeedCount>>
            /\ lastOp' = [op |-> "onAnswer", dt |-> 0, answer |-> answer, effect |-> "Throw"]
       ELSE IF isCorrect(answer)
       THEN /\ feedbackActive' = showFeedbackActive
            /\ text' = showFeedbackText(CorrectMsg)
            /\ paused' = playVideo
            /\ mediaCmds' =
                 LET v == IF hasVideo THEN Append(mediaCmds, "play")
                          ELSE mediaCmds
                 IN  IF audioSource THEN Append(v, "audio.play") ELSE v
            /\ active' = setButtonsActive(FALSE)
            /\ quizShown' = FALSE
            /\ quizCompleted' = TRUE
            /\ succeedCount' = succeedCount + 1
            /\ UNCHANGED elapsed
            /\ lastOp' = [op |-> "onAnswer", dt |-> 0, answer |-> answer, effect |-> "Succeed"]
       ELSE /\ feedbackActive' = showFeedbackActive
            /\ text' = showFeedbackText(RetryMsg)
            /\ UNCHANGED <<fields, paused, active, mediaCmds, succeedCount>>
            /\ lastOp' = [op |-> "onAnswer", dt |-> 0, answer |-> answer, effect |-> "Retry"]
    /\ UNCHANGED <<config, video, currentTime, revealCount, fallbackSum,
                   lastSample, availabilityChanged>>

\* _setupButton registers a click listener only on an assigned button
Click(l) ==
    /\ button(l)
    /\ onAnswer(l)

\* --------------------------------------------------------- the HTML video

EnvOp == [op |-> "video", dt |-> 0, answer |-> "", effect |-> "None"]

\* videoComponent.video appears (the video-texture has created its element)
VideoAppears ==
    /\ videoComponent
    /\ ~video
    /\ video' = TRUE
    /\ lastOp' = EnvOp
    /\ availabilityChanged' = TRUE
    /\ UNCHANGED <<config, fields, currentTime, paused, scene, mediaCmds,
                   revealCount, succeedCount, fallbackSum, lastSample>>

\* videoComponent.video is gone again
VideoDisappears ==
    /\ videoComponent
    /\ video
    /\ video' = FALSE
    /\ lastOp' = EnvOp
    /\ availabilityChanged' = TRUE
    /\ UNCHANGED <<config, fields, currentTime, paused, scene, mediaCmds,
                   revealCount, succeedCount, fallbackSum, lastSample>>

\* playback advances video.currentTime while the video is not paused
VideoPlays ==
    /\ hasVideo
    /\ ~paused
    /\ currentTime < MaxVideoTime
    /\ currentTime' = currentTime + 1
    /\ lastOp' = EnvOp
    /\ UNCHANGED <<config, fields, video, paused, scene, mediaCmds,
                   revealCount, succeedCount, fallbackSum, lastSample,
                   availabilityChanged>>

Next ==
    \/ \E dt \in 0..MaxDt : update(dt)
    \/ \E l \in Labels : Click(l)
    \/ VideoAppears
    \/ VideoDisappears
    \/ VideoPlays

Spec == Init /\ [][Next]_vars

\* The component without a video-texture component to read: only the
\* fallback timer is ever used.  The engine calls update() on every frame
\* with the frame time, which is positive, so a tick with dt > 0 always
\* comes again.
InitFallback == Init /\ ~videoComponent

TickForward == \E dt \in 1..MaxDt : update(dt)

NextFallback ==
    \/ \E dt \in 0..MaxDt : update(dt)
    \/ \E l \in Labels : Click(l)

LiveSpec == InitFallback /\ [][NextFallback]_vars /\ WF_vars(TickForward)

\* ===================================================================
\* Properties
\* ===================================================================

\* the step is a call of update / of _onAnswer (every action writes lastOp)
IsTick == lastOp'.op = "update"
IsClick == lastOp'.op = "onAnswer"
boundOptions == {l \in Labels : button(l)}

\* C1: at most one Succeed effect is ever emitted, and once an answer has
\* been accepted every later click, correct or not, leaves the phase
\* Completed and writes nothing.
C1_AtMostOneSuccess ==
    /\ [](succeedCount <= 1)
    /\ [][(IsClick /\ succeedCount >= 1) =>
            (phase' = "Completed" /\ UNCHANGED runtime
             /\ succeedCount' = succeedCount)]_vars

\* a correct click was delivered after the quiz had been completed
C1_Witness ==
    /\ succeedCount = 1
    /\ lastOp.op = "onAnswer"
    /\ lastOp.answer = correctAnswer
    /\ lastOp.effect = "None"
    /\ phase = "Completed"

\* C2: the phase goes from Waiting to Active at most once, and only in a
\* tick whose clock sample is >= quizTime; a tick whose sample is below
\* quizTime leaves the phase Waiting.
C2_MonotonicTrigger ==
    /\ [](revealCount <= 1)
    /\ [][(phase = "Waiting" /\ phase' # "Waiting") =>
            (IsTick /\ phase' = "Active"
             /\ sampled(lastOp'.dt) >= quizTime
             /\ revealCount' = revealCount + 1)]_vars
    /\ [][(IsTick /\ phase = "Waiting" /\ sampled(lastOp'.dt) < quizTime) =>
            phase' = "Waiting"]_vars

\* the quiz was revealed by a tick after some time had to pass
C2_Witness ==
    /\ lastOp.op = "update"
    /\ lastOp.effect = "Reveal"
    /\ phase = "Active"
    /\ revealCount = 1
    /\ quizTime > 0

\* C3: a click delivered in Waiting or Completed, whatever its label,
\* changes neither the phase nor anything the component writes.
C3_AnswerGating ==
    [][(IsClick /\ phase \in {"Waiting", "Completed"}) =>
        (phase' = phase /\ UNCHANGED runtime)]_vars

\* the correct answer was clicked while the quiz was still waiting
C3_Witness ==
    /\ lastOp.op = "onAnswer"
    /\ lastOp.answer = correctAnswer
    /\ phase = "Waiting"

\* C4: the phase never goes down in the order Waiting < Active <
\* Completed and never jumps from Waiting to Completed; once Completed no
\* tick or click writes anything.
C4_PhaseMonotone ==
    [][/\ Rank(phase') >= Rank(phase)
       /\ ~(phase = "Waiting" /\ phase' = "Completed")
       /\ ~(quizShown' /\ quizCompleted')
       /\ (phase = "Completed" /\ (IsTick \/ IsClick)) => UNCHANGED runtime
      ]_vars

\* a tick with a positive dt arrived after completion
C4_Witness ==
    /\ phase = "Completed"
    /\ lastOp.op = "update"
    /\ lastOp.dt > 0

\* C5: an incorrect click in Active keeps the phase Active, puts the retry
\* message in the feedback text, leaves every assigned button visible and
\* sends nothing to the video.
C5_RetryLoop ==
    [][(IsClick /\ phase = "Active" /\ lastOp'.answer # correctAnswer) =>
        /\ phase' = "Active"
        /\ feedbackText => text' = RetryMsg
        /\ feedbackObject => feedbackActive'
        /\ \A l \in boundOptions : active[l] /\ active'[l]
        /\ mediaCmds' = mediaCmds
        /\ paused' = paused
        /\ UNCHANGED fields
      ]_vars

\* a wrong answer was clicked while the quiz was shown and the video held
C5_Witness ==
    /\ lastOp.op = "onAnswer"
    /\ lastOp.effect = "Retry"
    /\ lastOp.answer # correctAnswer
    /\ phase = "Active"
    /\ text = RetryMsg
    /\ paused

\* C6 as stated: with no external clock every tick adds its dt to elapsed,
\* so that elapsed is the sum of the dt of all ticks.
C6_SumOfAllTicks ==
    [][(IsTick /\ ~videoComponent) => elapsed' = elapsed + lastOp'.dt]_vars

\* C6 as amended: with no external clock elapsed is the sum of the dt of
\* the ticks delivered while Waiting (a tick in Active or Completed adds
\* nothing), and Active is entered by the first tick at which that running
\* sum is >= quizTime.
C6_FallbackAccumulation ==
    /\ [](~videoComponent => elapsed = fallbackSum)
    /\ [](~videoComponent /\ phase # "Waiting" => fallbackSum >= quizTime)
    /\ [](~videoComponent /\ phase = "Waiting" /\ fallbackSum > 0
            => fallbackSum < quizTime)
    /\ [][(IsTick /\ ~videoComponent /\ phase = "Waiting") =>
            /\ elapsed' = elapsed + lastOp'.dt
            /\ phase' = "Active" <=> elapsed + lastOp'.dt >= quizTime
          ]_vars
    /\ [][(IsTick /\ ~videoComponent /\ phase # "Waiting") =>
            elapsed' = elapsed]_vars

\* without a video the quiz was revealed by the second or a later tick
\* that counted, and a tick with dt > 0 arrived afterwards
C6_Witness ==
    /\ ~videoComponent
    /\ phase = "Active"
    /\ elapsed >= quizTime
    /\ elapsed > MaxDt
    /\ lastOp.op = "update"
    /\ lastOp.effect = "None"
    /\ lastOp.dt > 0

\* C7: the tick that moves the phase from Waiting to Active makes every
\* assigned button active, pauses the video if there is one, and makes the
\* feedback object visible with an empty text.
C7_Reveal ==
    [][(phase = "Waiting" /\ phase' = "Active") =>
        /\ IsTick
        /\ \A l \in boundOptions : active'[l]
        /\ IF hasVideo
           THEN paused' /\ mediaCmds' = Append(mediaCmds, "pause")
           ELSE UNCHANGED <<paused, mediaCmds>>
        /\ feedbackObject => feedbackActive'
        /\ feedbackText => text' = EmptyMsg
      ]_vars

\* the reveal has just happened with everything assigned
C7_Witness ==
    /\ lastOp.effect = "Reveal"
    /\ boundOptions = Labels
    /\ \A l \in Labels : active[l]
    /\ hasVideo /\ paused /\ mediaCmds = <<"pause">>
    /\ feedbackText /\ feedbackActive /\ text = EmptyMsg

\* C8: a click on the correct answer in Active moves the phase to
\* Completed, hides every assigned button, resumes the video if there is
\* one and puts the success message in the feedback text.
C8_Succeed ==
    [][(IsClick /\ phase = "Active" /\ lastOp'.answer = correctAnswer) =>
        /\ phase' = "Completed"
        /\ \A l \in Labels : ~active'[l]
        /\ IF hasVideo
           THEN ~paused' /\ mediaCmds' = Append(mediaCmds, "play")
           ELSE UNCHANGED <<paused, mediaCmds>>
        /\ feedbackObject => feedbackActive'
        /\ feedbackText => text' = CorrectMsg
      ]_vars

\* the correct answer has just been accepted with everything assigned
C8_Witness ==
    /\ lastOp.effect = "Succeed"
    /\ phase = "Completed"
    /\ boundOptions = Labels
    /\ mediaCmds = <<"pause", "play">> /\ ~paused
    /\ feedbackText /\ text = CorrectMsg

\* C9: whatever is missing (video, feedback object or its text, buttons),
\* a tick in Waiting whose sample is >= quizTime still gives Active and a
\* correct click in Active still gives Completed; what is assigned is
\* still written and what is missing is left alone.
C9_UnboundNeverAborts ==
    [][/\ (IsTick /\ phase = "Waiting" /\ sampled(lastOp'.dt) >= quizTime)
            => (phase' = "Active" /\ \A l \in boundOptions : active'[l])
       /\ (IsClick /\ phase = "Active" /\ lastOp'.answer = correctAnswer)
            => (phase' = "Completed" /\ \A l \in boundOptions : ~active'[l])
       /\ (IsTick \/ IsClick) =>
            /\ ~feedbackObject => UNCHANGED <<feedbackActive, text>>
            /\ ~feedbackText => text' = text
            /\ ~hasVideo => UNCHANGED <<paused, mediaCmds>>
            /\ \A l \in Labels \ boundOptions : active'[l] = active[l]
            /\ (feedbackObject /\ phase' # phase) => feedbackActive'
            /\ (hasVideo /\ phase' # phase) => Len(mediaCmds') = Len(mediaCmds) + 1
      ]_vars

\* the quiz was completed with no video, no feedback object and a single
\* assigned button
C9_Witness ==
    /\ phase = "Completed"
    /\ lastOp.effect = "Succeed"
    /\ ~videoComponent
    /\ ~feedbackObject
    /\ Cardinality(boundOptions) = 1
    /\ mediaCmds = <<>>

\* C10: elapsed never decreases and changes only in a tick run in Waiting
\* while there is no video to read; a tick that reads the video and every
\* click leave it alone.
C10_ElapsedFrame ==
    [][/\ elapsed' >= elapsed
       /\ elapsed' # elapsed => (IsTick /\ phase = "Waiting" /\ ~hasVideo)
       /\ (IsTick /\ hasVideo) => elapsed' = elapsed
       /\ IsClick => elapsed' = elapsed
      ]_vars

\* a tick read the video after the fallback timer had already counted
C10_Witness ==
    /\ lastOp.op = "update"
    /\ lastOp.dt > 0
    /\ hasVideo
    /\ phase = "Waiting"
    /\ elapsed > 0

\* C11: a tick delivered in Active or Completed, whatever its dt and
\* whatever the video is doing, writes nothing: flags, elapsed, buttons,
\* feedback and video commands stay as they are.
C11_TickNoOpUnlessWaiting ==
    [][(IsTick /\ phase \in {"Active", "Completed"}) =>
        (UNCHANGED runtime /\ UNCHANGED <<revealCount, lastSample>>)]_vars

\* a tick with dt > 0 arrived while the quiz was shown, with the video
\* past quizTime and a retry message on display
C11_Witness ==
    /\ phase = "Active"
    /\ lastOp.op = "update"
    /\ lastOp.dt > 0
    /\ hasVideo
    /\ currentTime >= quizTime
    /\ text = RetryMsg

\* C12 as stated: the value compared with quizTime never decreases from
\* one tick in Waiting to the next, also when the source changes between
\* the video time and the accumulated time.
C12_SampleMonotone ==
    [][(IsTick /\ phase = "Waiting" /\ lastSample.source # "none") =>
        lastSample'.value >= lastSample.value]_vars

\* C12 as amended: the value never decreases between two successive ticks
\* in Waiting that read the same source (the video time itself not going
\* back); after a change of source it may be smaller.
C12_SampleMonotoneSameSource ==
    [][(IsTick /\ phase = "Waiting"
        /\ lastSample'.source = lastSample.source) =>
        lastSample'.value >= lastSample.value]_vars

\* two successive fallback samples, the second one larger
C12_Witness ==
    /\ phase = "Waiting"
    /\ lastOp.op = "update"
    /\ lastOp.dt > 0
    /\ lastSample.source = "fallback"
    /\ lastSample.value > lastOp.dt

\* C13: a tick in Waiting with the video there decides on the video time
\* alone and leaves elapsed as it is; a tick without the video adds dt to
\* elapsed and decides on the result; the two times are never combined.
C13_ClockSelection ==
    [][(IsTick /\ phase = "Waiting") =>
        IF hasVideo
        THEN /\ elapsed' = elapsed
             /\ lastSample' = [source |-> "external", value |-> currentTime]
             /\ phase' = "Active" <=> currentTime >= quizTime
        ELSE /\ elapsed' = elapsed + lastOp'.dt
             /\ lastSample' = [source |-> "fallback",
                               value |-> elapsed + lastOp'.dt]
             /\ phase' = "Active" <=> elapsed + lastOp'.dt >= quizTime
      ]_vars

\* the quiz was revealed on the video time while the accumulated time,
\* started earlier, was still short of quizTime
C13_Witness ==
    /\ lastOp.effect = "Reveal"
    /\ hasVideo
    /\ lastSample.source = "external"
    /\ elapsed > 0
    /\ elapsed < quizTime
    /\ currentTime >= quizTime

\* C14: the phase leaves Active only by a click whose label is
\* correctAnswer; no tick, no wrong click and no change of the video ends
\* it.
C14_ActivePersists ==
    [][(phase = "Active" /\ phase' # "Active") =>
        (IsClick /\ lastOp'.answer = correctAnswer
         /\ phase' = "Completed")]_vars

\* after a wrong click a tick arrived and the quiz is still shown
C14_Witness ==
    /\ phase = "Active"
    /\ lastOp.op = "update"
    /\ lastOp.dt = MaxDt
    /\ text = RetryMsg
    /\ ~hasVideo

\* The scenario of C15: quizTime 3, no video, correct answer A, all three
\* buttons and the feedback text assigned.
ScenarioConfig ==
    /\ quizTime = 3
    /\ ~videoComponent
    /\ correctAnswer = "A"
    /\ boundOptions = Labels
    /\ feedbackText

\* The steps of the scenario, one conjunct per step (the third tick is
\* the one at elapsed = 2 that follows a tick of dt = 1); revealMedia and
\* succeedMedia say what the step does to the video.
ScenarioSteps(revealMedia, succeedMedia) ==
    ScenarioConfig =>
      /\ (IsTick /\ lastOp'.dt = 1 /\ phase = "Waiting" /\ elapsed \in {0, 1})
           => (phase' = "Waiting" /\ elapsed' = elapsed + 1
               /\ UNCHANGED <<scene, paused, mediaCmds>>)
      /\ (IsTick /\ lastOp'.dt = 1 /\ phase = "Waiting" /\ elapsed = 2
          /\ lastOp.op = "update" /\ lastOp.dt = 1)
           => (phase' = "Active" /\ (\A l \in Labels : active'[l])
               /\ feedbackActive' /\ text' = EmptyMsg /\ revealMedia)
      /\ (IsClick /\ lastOp'.answer = "B" /\ phase = "Active")
           => (phase' = "Active" /\ text' = RetryMsg
               /\ (\A l \in Labels : active'[l])
               /\ UNCHANGED <<paused, mediaCmds>>)
      /\ (IsClick /\ lastOp'.answer = "A" /\ phase = "Active")
           => (phase' = "Completed" /\ (\A l \in Labels : ~active'[l])
               /\ text' = CorrectMsg /\ succeedMedia)
      /\ (IsClick /\ lastOp'.answer = "A" /\ phase = "Completed")
           => UNCHANGED runtime

\* C15 as stated: in the scenario the third tick of dt = 1 reveals the
\* quiz and pauses the video, click B gives the retry text, click A
\* completes the quiz and resumes the video, a further click A changes
\* nothing.
C15_Scenario ==
    [][ScenarioSteps(paused' /\ mediaCmds' = <<"pause">>,
                     ~paused' /\ mediaCmds' = <<"pause", "play">>)]_vars

\* C15 as amended: the same scenario, except that no pause and no play is
\* sent: with no video to read the time from there is no video to
\* command.
C15_ScenarioNoMedia ==
    [][ScenarioSteps(mediaCmds' = <<>> /\ paused' = paused,
                     mediaCmds' = <<>> /\ paused' = paused)]_vars

\* the end of the scenario: completed at elapsed = 3, then A clicked again
C15_Witness ==
    /\ ScenarioConfig
    /\ elapsed = 3
    /\ fallbackSum = 3
    /\ lastSample = [source |-> "fallback", value |-> 3]
    /\ phase = "Completed"
    /\ text = CorrectMsg
    /\ lastOp = [op |-> "onAnswer", dt |-> 0, answer |-> "A",
                 effect |-> "None"]
    /\ mediaCmds = <<>>

\* C16: any subset of the buttons may be assigned; the quiz is never
\* completed when no assigned button carries correctAnswer, and then stays
\* Active once shown; when an assigned button carries it, the click that
\* completes the quiz is possible in every state where the quiz is shown.
C16_Completability ==
    /\ [](correctAnswer \notin boundOptions => phase # "Completed")
    /\ []((correctAnswer \in boundOptions /\ phase = "Active")
            => ENABLED (Click(correctAnswer) /\ quizCompleted'))
    /\ []((correctAnswer \notin boundOptions /\ phase = "Active")
            => ~ENABLED (Next /\ phase' # "Active"))

\* the quiz is shown, some button is assigned, none carries the correct
\* answer, and a click has been answered with the retry message
C16_Witness ==
    /\ phase = "Active"
    /\ correctAnswer \in Labels
    /\ correctAnswer \notin boundOptions
    /\ Cardinality(boundOptions) = 2
    /\ lastOp.effect = "Retry"

\* C17: the state the buttons, the feedback object, its text and the
\* video are left in by Reveal, Succeed or Retry is not changed by
\* applying the same effect to it once more.
C17_EffectsIdempotent ==
    [][/\ lastOp'.effect = "Reveal" =>
            /\ setButtonsActive(TRUE)' = active'
            /\ showFeedbackActive' = feedbackActive'
            /\ showFeedbackText(EmptyMsg)' = text'
            /\ pauseVideo' = paused'
       /\ lastOp'.effect = "Succeed" =>
            /\ setButtonsActive(FALSE)' = active'
            /\ showFeedbackActive' = feedbackActive'
            /\ showFeedbackText(CorrectMsg)' = text'
            /\ playVideo' = paused'
       /\ lastOp'.effect = "Retry" =>
            /\ showFeedbackActive' = feedbackActive'
            /\ showFeedbackText(RetryMsg)' = text'
      ]_vars

\* a retry was shown with every collaborator assigned
C17_Witness ==
    /\ lastOp.effect = "Retry"
    /\ boundOptions = Labels
    /\ hasVideo
    /\ feedbackText
    /\ feedbackActive

\* C18: in every state after start() an assigned button is active exactly
\* when the quiz is shown, quizShown and quizCompleted are never both
\* true, and an assigned feedback object is hidden exactly while Waiting.
C18_VisibilityMatchesPhase ==
    /\ \A l \in boundOptions : active[l] <=> phase = "Active"
    /\ ~(quizShown /\ quizCompleted)
    /\ feedbackObject => (feedbackActive <=> phase # "Waiting")

\* completed with all buttons and the feedback object assigned
C18_Witness ==
    /\ phase = "Completed"
    /\ boundOptions = Labels
    /\ feedbackObject
    /\ feedbackActive
    /\ \A l \in Labels : ~active[l]

\* the commands of one kind in the sequence sent to the video
Count(cmd) == Cardinality({i \in 1..Len(mediaCmds) : mediaCmds[i] = cmd})

\* C19: at most one pause and one play are ever sent to the video; as
\* long as the video has neither come nor gone since start(), the
\* commands sent are a prefix of <<pause, play>> and, with the video
\* there, pause is the last command sent exactly while the quiz is shown.
C19_MediaCommands ==
    /\ Count("pause") <= 1
    /\ Count("play") <= 1
    /\ Count("pause") + Count("play") = Len(mediaCmds)
    /\ ~availabilityChanged =>
          /\ mediaCmds \in {<<>>, <<"pause">>, <<"pause", "play">>}
          /\ hasVideo =>
                /\ mediaCmds = <<"pause">> <=> phase = "Active"
                /\ mediaCmds = <<"pause", "play">> <=> phase = "Completed"
                /\ phase = "Active" => paused
          /\ ~hasVideo => mediaCmds = <<>>

\* the video was there all along, was paused for the quiz and resumed
C19_Witness ==
    /\ ~availabilityChanged
    /\ hasVideo
    /\ phase = "Completed"
    /\ mediaCmds = <<"pause", "play">>
    /\ ~paused

\* C20: without a video and with ticks of dt >= 1 that keep coming, the
\* quiz is eventually revealed whatever quizTime is, and with quizTime = 0
\* the first tick reveals it.
C20_FallbackLiveness ==
    /\ <>(revealCount = 1)
    /\ [][(IsTick /\ phase = "Waiting" /\ quizTime = 0) =>
            phase' = "Active"]_vars

\* the largest quizTime was reached exactly, by a tick of dt = 1
C20_Witness ==
    /\ ~videoComponent
    /\ quizTime = MaxQuizTime
    /\ lastOp.effect = "Reveal"
    /\ lastOp.dt = 1
    /\ elapsed = quizTime

====
